---- MODULE Spec2Model ----
(***************************************************************************)
(* Cara Orange Growers transportation optimizer (cara_logistics_app.py).   *)
(*                                                                         *)
(* One behaviour is one execution of the Streamlit script.  The three      *)
(* edited tables are the inputs of the execution; pressing "Run            *)
(* Optimization" builds the two dictionaries, formulates the linear        *)
(* program, solves it and then renders, in program order, the shipment     *)
(* plan with its total cost, the flow breakdown, the route map and the     *)
(* status with the shadow prices.                                          *)
(*                                                                         *)
(* The table cells are integers (the editor columns are integer columns),  *)
(* so every vertex of the transportation polytope and every vertex of its  *)
(* dual is integral: the values a simplex solver returns are integers.     *)
(*                                                                         *)
(* Spec runs the script on tables with small entries and lists the         *)
(* solver's answers point by point.  SpecDefault runs it on the tables the *)
(* editors start from, at most one cell edited, and lists the solver's     *)
(* answers basis by basis.                                                 *)
(***************************************************************************)
EXTENDS Integers, Sequences, FiniteSets, TLC

VARIABLES
    supply_df,      \* edited supply table: sequence of [Region, Supply] rows
    demand_df,      \* edited demand table: sequence of [RDC, Demand] rows
    costs,          \* edited cost table, indexed by the default names
    pc,             \* position of the script run
    supply,         \* dict built from supply_df
    demand,         \* dict built from demand_df
    status,         \* LpStatus[model.status]
    varValue,       \* x[(s, d)].varValue for every route
    pi,             \* c.pi for every constraint of the model
    results,        \* the shipment matrix shown to the user
    total_cost,     \* value(model.objective) shown to the user
    flow_df,        \* the rows of the flow breakdown
    map_df,         \* the rows of the route map
    shadow_prices,  \* the binding-constraint map
    shown           \* the views written to the page so far

vars == <<supply_df, demand_df, costs, pc, supply, demand, status, varValue,
          pi, results, total_cost, flow_df, map_df, shadow_prices, shown>>

(***************************************************************************)
(* Bounds of the model.                                                    *)
(***************************************************************************)
MaxTons == 1        \* largest capacity or requirement entered in a table
MaxCost == 1        \* largest unit cost entered in the cost table
MaxPi == 2          \* largest magnitude of a dual value the solver returns
MaxPartial == 1     \* tons carried by the point of an unsuccessful solve
MaxEdit == 10       \* tons by which one cell of a starting table is edited

(***************************************************************************)
(* Names of the origins and destinations.                                  *)
(***************************************************************************)
regions == <<"Indian River, FL", "Rio Grande Valley, TX", "Central Valley, CA">>

rdcs == <<"Atlanta, GA", "Chicago, IL", "Dallas, TX", "Los Angeles, CA">>

\* A name typed into a table that the cost table does not know.
OtherName == "Elsewhere"

Range(q) == {q[i] : i \in DOMAIN q}

Abs(n) == IF n < 0 THEN -n ELSE n

RECURSIVE SumOver(_, _)
\* Sum of f[k] for k in the set K.
SumOver(K, f) ==
    IF K = {} THEN 0
    ELSE LET k == CHOOSE e \in K : TRUE
         IN f[k] + SumOver(K \ {k}, f)

RECURSIVE FunProd(_, _)
\* All functions g on K with g[k] \in F[k] for every k.
FunProd(K, F) ==
    IF K = {} THEN {<<>>}
    ELSE LET k == CHOOSE e \in K : TRUE
             rest == FunProd(K \ {k}, F)
         IN {(k :> v) @@ g : v \in F[k], g \in rest}

(***************************************************************************)
(* The tables the editors start from.                                      *)
(***************************************************************************)
\* The index and the columns of the cost table are the default names.
CostKeys == Range(regions) \X Range(rdcs)

RowOf(s) == CHOOSE i \in DOMAIN regions : regions[i] = s

ColOf(d) == CHOOSE j \in DOMAIN rdcs : rdcs[j] = d

\* default_supply(): the supply table the editor starts from
default_supply ==
    LET tons == <<150, 170, 200>>
    IN [i \in DOMAIN regions |-> [Region |-> regions[i], Supply |-> tons[i]]]

\* default_demand(): the demand table the editor starts from
default_demand ==
    LET tons == <<140, 130, 120, 130>>
    IN [j \in DOMAIN rdcs |-> [RDC |-> rdcs[j], Demand |-> tons[j]]]

\* default_costs(): the cost table the editor starts from
default_costs ==
    LET rows == << <<500, 700, 800, 1200>>,
                   <<400, 600, 300, 1000>>,
                   <<900, 850, 650, 400>> >>
    IN [k \in CostKeys |-> rows[RowOf(k[1])][ColOf(k[2])]]

(***************************************************************************)
(* The bounded sets the edited tables are drawn from.                      *)
(***************************************************************************)
TonValues == -1 .. MaxTons

\* The rows of a pattern hold the same entry, the other rows hold 0.
TonTables(n, patterns) ==
    {[i \in 1..n |-> IF i \in A THEN t ELSE 0] : A \in patterns, t \in TonValues}

\* Any origins have capacity.
SupplyPatterns == SUBSET (DOMAIN regions)

\* One destination, or every destination, has a requirement.
DemandPatterns == {{j} : j \in DOMAIN rdcs} \cup {DOMAIN rdcs}

\* The names of a table: the default names, or the second row renamed to the
\* name of the first row or to a name the cost table does not hold.
Renamed(names) ==
    {names, [names EXCEPT ![2] = names[1]], [names EXCEPT ![2] = OtherName]}

\* At most one of the two tables is renamed.
NamePairs ==
    {<<sn, rdcs>> : sn \in Renamed(regions)} \cup {<<regions, dn>> : dn \in Renamed(rdcs)}

SupplyTable(names, tons) ==
    [i \in DOMAIN regions |-> [Region |-> names[i], Supply |-> tons[i]]]

DemandTable(names, tons) ==
    [j \in DOMAIN rdcs |-> [RDC |-> names[j], Demand |-> tons[j]]]

\* Cost tables: the largest price everywhere, a price growing with the distance
\* between the row and the column, and the latter with one route priced
\* below zero.
Distance(i, j) == IF Abs(i - j) > MaxCost THEN MaxCost ELSE Abs(i - j)

CostTables ==
    {[k \in CostKeys |-> MaxCost],
     [k \in CostKeys |-> Distance(RowOf(k[1]), ColOf(k[2]))],
     [k \in CostKeys |->
        IF k = <<regions[1], rdcs[1]>> THEN -1
        ELSE Distance(RowOf(k[1]), ColOf(k[2]))]}

\* A starting table as it stands, or with the tons of one row edited up or down.
EditedSupply ==
    {default_supply} \cup
    {[default_supply EXCEPT ![i].Supply = @ + e] :
        i \in DOMAIN default_supply, e \in {-MaxEdit, MaxEdit}}

EditedDemand ==
    {default_demand} \cup
    {[default_demand EXCEPT ![j].Demand = @ + e] :
        j \in DOMAIN default_demand, e \in {-MaxEdit, MaxEdit}}

\* At most one cell of the two starting tables is edited.
EditedTables ==
    ({default_supply} \X EditedDemand) \cup (EditedSupply \X {default_demand})

(***************************************************************************)
(* dict(zip(keys, values)): a repeated key keeps its last value.           *)
(***************************************************************************)
DictZip(keys, values) ==
    [k \in Range(keys) |->
        LET last == CHOOSE i \in DOMAIN keys :
                        /\ keys[i] = k
                        /\ \A j \in DOMAIN keys : keys[j] = k => j <= i
        IN values[last]]

SupplyDict(df) ==
    DictZip([i \in DOMAIN df |-> df[i].Region], [i \in DOMAIN df |-> df[i].Supply])

DemandDict(df) ==
    DictZip([i \in DOMAIN df |-> df[i].RDC], [i \in DOMAIN df |-> df[i].Demand])

(***************************************************************************)
(* The linear program.                                                     *)
(***************************************************************************)
\* routes = [(s, d) for s in supply for d in demand]
Routes(sup, dem) == (DOMAIN sup) \X (DOMAIN dem)

\* costs.loc[s, d] raises KeyError for a name the cost table does not hold.
CostsKnown(sup, dem) == Routes(sup, dem) \subseteq DOMAIN costs

\* Mutant of Objective: the cost is maximised.
ObjectiveNegated(x, c) == SumOver(DOMAIN x, [r \in DOMAIN x |-> -(x[r] * c[r])])

\* lpSum([x[(s, d)] * costs.loc[s, d] for (s, d) in routes])
Objective(x, c) == SumOver(DOMAIN x, [r \in DOMAIN x |-> x[r] * c[r]])

\* Mutant of SupplyConstraint: the bound is one ton above the capacity.
SupplyConstraintLoose(s, sup, dem) ==
    [name |-> <<"Supply", s>>, routes |-> {s} \X DOMAIN dem, sense |-> "<=",
     rhs |-> sup[s] + 1]

\* lpSum([x[(s, d)] for d in demand]) <= supply[s], named Supply_<s>
SupplyConstraint(s, sup, dem) ==
    [name |-> <<"Supply", s>>, routes |-> {s} \X DOMAIN dem, sense |-> "<=", rhs |-> sup[s]]

\* Mutant of DemandConstraint: the bound is one ton below the requirement.
DemandConstraintLoose(d, sup, dem) ==
    [name |-> <<"Demand", d>>, routes |-> (DOMAIN sup) \X {d}, sense |-> ">=",
     rhs |-> dem[d] - 1]

\* lpSum([x[(s, d)] for s in supply]) >= demand[d], named Demand_<d>
DemandConstraint(d, sup, dem) ==
    [name |-> <<"Demand", d>>, routes |-> (DOMAIN sup) \X {d}, sense |-> ">=", rhs |-> dem[d]]

\* model.constraints
Constraints(sup, dem) ==
    {SupplyConstraint(s, sup, dem) : s \in DOMAIN sup}
    \cup {DemandConstraint(d, sup, dem) : d \in DOMAIN dem}

ConstraintNames(sup, dem) == {c.name : c \in Constraints(sup, dem)}

\* The left-hand side of a constraint at the point x.
Activity(c, x) == SumOver(c.routes, [r \in c.routes |-> x[r]])

\* Mutant of Satisfied: the ">=" constraints are not enforced.
SatisfiedUpperOnly(c, x) ==
    IF c.sense = "<=" THEN Activity(c, x) <= c.rhs ELSE TRUE

Satisfied(c, x) ==
    IF c.sense = "<=" THEN Activity(c, x) <= c.rhs ELSE Activity(c, x) >= c.rhs

Tight(c, x) == Activity(c, x) = c.rhs

(***************************************************************************)
(* model.solve().  The solver is told the program above and answers with a *)
(* status, a value for every variable and a dual value for every           *)
(* constraint.  With status Optimal the values are an optimal vertex and   *)
(* the dual values an optimal dual vertex; which one is the solver's       *)
(* choice.  Every variable lies in exactly one "<=" constraint of the      *)
(* program, which bounds it, so the points are listed constraint by        *)
(* constraint.                                                             *)
(***************************************************************************)
\* The assignments to the routes of one "<=" constraint that respect it,
\* every variable at or above its lower bound 0.
BlockPlans(c) ==
    {row \in [c.routes -> 0..c.rhs] : SumOver(c.routes, row) <= c.rhs}

RECURSIVE PlansOver(_)
PlansOver(blocks) ==
    IF blocks = {} THEN {<<>>}
    ELSE LET c == CHOOSE b \in blocks : TRUE
         IN UNION {{row @@ rest : rest \in PlansOver(blocks \ {c})} : row \in BlockPlans(c)}

\* The points that satisfy every constraint of the program.
FeasiblePlans(sup, dem) ==
    LET cons == Constraints(sup, dem)
    IN {x \in PlansOver({c \in cons : c.sense = "<="}) :
            /\ DOMAIN x = Routes(sup, dem)
            /\ \A c \in cons : Satisfied(c, x)}

\* The feasible points of least objective value.
OptimalPlans(sup, dem, c) ==
    LET priced == {<<x, Objective(x, c)>> : x \in FeasiblePlans(sup, dem)}
        least == CHOOSE m \in {p[2] : p \in priced} : \A q \in priced : m <= q[2]
    IN {p[1] : p \in {q \in priced : q[2] = least}}

\* The point the solver leaves behind when it finds no feasible point: the
\* variables are at or above their bound, the constraints need not hold.
PartialPlans(sup, dem) ==
    {[r \in Routes(sup, dem) |-> IF r = q THEN t ELSE 0] :
        q \in Routes(sup, dem), t \in 0..MaxPartial}

\* A dual value of the constraint c that agrees with its sense (minimisation:
\* relaxing a "<=" bound cannot raise the cost, relaxing a ">=" bound cannot
\* lower it) and vanishes unless the constraint is tight at x.
LocalDuals(c, x) ==
    {p \in -MaxPi..MaxPi :
        /\ c.sense = "<=" => p <= 0
        /\ c.sense = ">=" => p >= 0
        /\ p # 0 => Tight(c, x)}

\* The reduced cost of route r: nonnegative, and zero where r carries tons.
ReducedCostOK(r, x, c, p) ==
    /\ c[r] - p >= 0
    /\ x[r] > 0 => c[r] - p = 0

\* The dual values that are optimal together with the optimal point x.
DualSolutions(x, sup, dem, c) ==
    LET scons == {SupplyConstraint(s, sup, dem) : s \in DOMAIN sup}
        dcons == {DemandConstraint(d, sup, dem) : d \in DOMAIN dem}
        snames == {k.name : k \in scons}
        dnames == {k.name : k \in dcons}
        SCon(n) == CHOOSE k \in scons : k.name = n
        DCon(n) == CHOOSE k \in dcons : k.name = n
        U == FunProd(snames, [n \in snames |-> LocalDuals(SCon(n), x)])
        V(u) == FunProd(dnames,
                    [n \in dnames |->
                        {p \in LocalDuals(DCon(n), x) :
                            \A r \in DCon(n).routes :
                                ReducedCostOK(r, x, c, u[<<"Supply", r[1]>>] + p)}])
    IN UNION {{u @@ v : v \in V(u)} : u \in U}

\* The dual values left behind by an unsuccessful solve.
UnsolvedDuals(sup, dem) ==
    {[n \in ConstraintNames(sup, dem) |-> p] : p \in {-1, 0, 1}}

(***************************************************************************)
(* model.solve(), by bases.  The point a simplex solver ends on is a basic *)
(* solution: as many basic variables as constraints, every other variable  *)
(* and slack at zero.  In this program a basis is a tree: every constraint *)
(* hands what it does not settle itself either to its own slack variable   *)
(* or, over a basic route, to the constraint at the other end of the       *)
(* route.  The values of a basis follow from the right-hand sides alone,   *)
(* so the bases, unlike the lattice points above, do not grow with the     *)
(* tonnage.                                                                *)
(***************************************************************************)
\* The slack variables, as the root of every basis.
Slack == <<"Slack", "">>

\* The constraint of the program that carries the name n.
Named(n, sup, dem) == CHOOSE c \in Constraints(sup, dem) : c.name = n

\* Whether following p from n arrives at the slack within k steps.
RECURSIVE Rooted(_, _, _)
Rooted(p, n, k) ==
    IF n = Slack THEN TRUE
    ELSE IF k = 0 THEN FALSE
    ELSE Rooted(p, p[n], k - 1)

\* The bases: p[n] is the slack, or the constraint that n shares its basic
\* route with, and no constraint is handed back what it handed on.
Bases(sup, dem) ==
    LET N == ConstraintNames(sup, dem)
        partners == [n \in N |-> {m \in N : m[1] # n[1]} \cup {Slack}]
    IN {p \in FunProd(N, partners) : \A n \in N : Rooted(p, n, Cardinality(N))}

\* The route that the constraints n and m share.
RouteOf(n, m) == IF n[1] = "Supply" THEN <<n[2], m[2]>> ELSE <<m[2], n[2]>>

\* Whether the constraint m hands on to n, directly or over other constraints.
RECURSIVE Under(_, _, _)
Under(p, m, n) ==
    IF m = n THEN TRUE
    ELSE IF m = Slack THEN FALSE
    ELSE Under(p, p[m], n)

\* What every constraint brings to a basis: the tons on offer, or the tons
\* asked for as tons owed.
Balance(sup, dem) ==
    [n \in ConstraintNames(sup, dem) |->
        LET c == Named(n, sup, dem)
        IN IF c.sense = "<=" THEN c.rhs ELSE -c.rhs]

\* What n hands on in the basis p: the balance of the constraints that hand
\* on to n.
Net(p, n, bal) == SumOver({m \in DOMAIN p : Under(p, m, n)}, bal)

\* The value of the basic variable of n: its slack, or the tons on the route
\* it shares with p[n].
BasicValue(p, n, bal) ==
    IF p[n] # Slack /\ n[1] = "Demand" THEN -Net(p, n, bal) ELSE Net(p, n, bal)

\* The bases whose point lies in the feasible region: no basic variable is
\* below zero.
FeasibleBases(sup, dem) ==
    LET bal == Balance(sup, dem)
    IN {p \in Bases(sup, dem) : \A n \in DOMAIN p : BasicValue(p, n, bal) >= 0}

\* The values of the variables in the basis p.
BasicPlan(p, sup, dem) ==
    LET bal == Balance(sup, dem)
    IN [r \in Routes(sup, dem) |->
          LET s == <<"Supply", r[1]>>
              d == <<"Demand", r[2]>>
          IN IF p[s] = d THEN BasicValue(p, s, bal)
             ELSE IF p[d] = s THEN BasicValue(p, d, bal)
             ELSE 0]

\* The points of least objective value among the points of the feasible
\* bases fb.
BasicOptimalPlans(fb, sup, dem, c) ==
    LET priced == {<<x, Objective(x, c)>> : x \in {BasicPlan(p, sup, dem) : p \in fb}}
        least == CHOOSE m \in {q[2] : q \in priced} : \A q \in priced : m <= q[2]
    IN {q[1] : q \in {e \in priced : e[2] = least}}

\* The dual value of the constraint n in the basis p: a basic slack prices its
\* constraint at zero, a basic route has reduced cost zero.
RECURSIVE Price(_, _, _)
Price(p, n, c) ==
    IF p[n] = Slack THEN 0
    ELSE c[RouteOf(n, p[n])] - Price(p, p[n], c)

BasicDuals(p, c) == [n \in DOMAIN p |-> Price(p, n, c)]

\* Dual values that agree with the sense of their constraints and leave no
\* route with a reduced cost below zero.
DualFeasible(duals, sup, dem, c) ==
    /\ \A n \in DOMAIN duals :
          IF Named(n, sup, dem).sense = "<=" THEN duals[n] <= 0 ELSE duals[n] >= 0
    /\ \A r \in Routes(sup, dem) :
          c[r] - duals[<<"Supply", r[1]>>] - duals[<<"Demand", r[2]>>] >= 0

\* The dual values of the bases the solver can end on at the optimal point x.
BasicDualSolutions(x, sup, dem, c) ==
    {duals \in {BasicDuals(p, c) :
                   p \in {q \in FeasibleBases(sup, dem) : BasicPlan(q, sup, dem) = x}} :
        DualFeasible(duals, sup, dem, c)}

(***************************************************************************)
(* The views.                                                              *)
(***************************************************************************)
\* results.loc[s, d] = x[(s, d)].varValue, for every route
ResultsMatrix(x) == [r \in DOMAIN x |-> x[r]]

\* value(model.objective)
ObjectiveValue(x, c) == Objective(x, c)

\* Mutant of FlowRows: a route is listed only when it carries more than a ton.
FlowRowsAboveOne(x, c) ==
    {[From |-> r[1], To |-> r[2], Tons |-> x[r], CostPerTon |-> c[r],
      TotalCost |-> x[r] * c[r]] : r \in {q \in DOMAIN x : x[q] > 1}}

\* The rows of flow_df: the routes that carry tons.
FlowRows(x, c) ==
    {[From |-> r[1], To |-> r[2], Tons |-> x[r], CostPerTon |-> c[r],
      TotalCost |-> x[r] * c[r]] : r \in {q \in DOMAIN x : x[q] > 0}}

\* The rows of map_lines: the routes that carry tons.
MapLines(x) ==
    {[From |-> r[1], To |-> r[2], tons |-> x[r]] : r \in {q \in DOMAIN x : x[q] > 0}}

\* map_df['tons'] raises KeyError when map_lines is empty: a DataFrame built
\* from an empty list has no columns.
TonsColumnExists(lines) == lines # {}

\* map_df with the line_width of every row, a fraction <<numerator,
\* denominator>>: min_width + (max_width - min_width) * (t - t_min) / (t_max -
\* t_min) when the tons differ, min_width when they do not.
LineWidths(lines) ==
    LET tons == {l.tons : l \in lines}
        t_min == CHOOSE t \in tons : \A u \in tons : t <= u
        t_max == CHOOSE t \in tons : \A u \in tons : t >= u
    IN {[From |-> l.From, To |-> l.To, tons |-> l.tons,
         line_width |-> IF t_max > t_min
                        THEN <<2 * (t_max - t_min) + (10 - 2) * (l.tons - t_min),
                               t_max - t_min>>
                        ELSE <<2, 1>>] : l \in lines}

\* Dual values are compared in ten-thousandths.
PiScale == 10000

\* 0.0001, in ten-thousandths
BindingThreshold == 1

\* Mutant of Binding: the magnitude is not taken.
BindingPositive(p) == p * PiScale > BindingThreshold

\* abs(c.pi) > 0.0001
Binding(p) == Abs(p * PiScale) > BindingThreshold

\* Mutant of ShadowPrices: the dual values are reported with the sign turned.
ShadowPricesNegated(duals) ==
    [n \in {m \in DOMAIN duals : Abs(duals[m] * PiScale) > BindingThreshold} |-> -duals[n]]

\* shadow_prices[name] = round(c.pi, 2) for the constraints that pass the test
ShadowPrices(duals) ==
    [n \in {m \in DOMAIN duals : Binding(duals[m])} |-> duals[n]]

(***************************************************************************)
(* The script run.                                                         *)
(***************************************************************************)
Init ==
    /\ \E names \in NamePairs, st \in TonTables(Len(regions), SupplyPatterns),
          dt \in TonTables(Len(rdcs), DemandPatterns) :
          /\ supply_df = SupplyTable(names[1], st)
          /\ demand_df = DemandTable(names[2], dt)
    /\ costs \in CostTables
    /\ pc = "idle"
    /\ supply = <<>>
    /\ demand = <<>>
    /\ status = "Not Solved"
    /\ varValue = <<>>
    /\ pi = <<>>
    /\ results = <<>>
    /\ total_cost = 0
    /\ flow_df = {}
    /\ map_df = {}
    /\ shadow_prices = <<>>
    /\ shown = {}

\* The button is pressed and every route has a cost: the dictionaries are
\* built, the program is formulated and solved.
RunOptimization ==
    /\ pc = "idle"
    /\ LET sup == SupplyDict(supply_df)
           dem == DemandDict(demand_df)
       IN /\ CostsKnown(sup, dem)
          /\ supply' = sup
          /\ demand' = dem
          /\ IF FeasiblePlans(sup, dem) # {}
             THEN /\ status' = "Optimal"
                  /\ varValue' \in OptimalPlans(sup, dem, costs)
             ELSE /\ status' = "Infeasible"
                  /\ varValue' \in PartialPlans(sup, dem)
    /\ pc' = "solved"
    /\ UNCHANGED <<supply_df, demand_df, costs, pi, results, total_cost, flow_df,
                   map_df, shadow_prices, shown>>

\* The button is pressed and the objective asks for the cost of a route the
\* cost table does not hold: costs.loc raises KeyError and the run ends.
RunFails ==
    /\ pc = "idle"
    /\ LET sup == SupplyDict(supply_df)
           dem == DemandDict(demand_df)
       IN /\ ~CostsKnown(sup, dem)
          /\ supply' = sup
          /\ demand' = dem
    /\ pc' = "failed"
    /\ UNCHANGED <<supply_df, demand_df, costs, status, varValue, pi, results,
                   total_cost, flow_df, map_df, shadow_prices, shown>>

\* "Optimal Shipment Plan (Tons)", "Total Weekly Transportation Cost" and the
\* Sankey diagram.
ShowPlan ==
    /\ pc = "solved"
    /\ results' = ResultsMatrix(varValue)
    /\ total_cost' = ObjectiveValue(varValue, costs)
    /\ shown' = shown \cup {"plan", "cost", "sankey"}
    /\ pc' = "plan"
    /\ UNCHANGED <<supply_df, demand_df, costs, supply, demand, status, varValue,
                   pi, flow_df, map_df, shadow_prices>>

\* "Flow Breakdown by Route"
FlowBreakdown ==
    /\ pc = "plan"
    /\ flow_df' = FlowRows(varValue, costs)
    /\ shown' = shown \cup {"flow"}
    /\ pc' = "flow"
    /\ UNCHANGED <<supply_df, demand_df, costs, supply, demand, status, varValue,
                   pi, results, total_cost, map_df, shadow_prices>>

\* "Map View of Transportation Routes", some route carrying tons.
MapView ==
    /\ pc = "flow"
    /\ TonsColumnExists(MapLines(varValue))
    /\ map_df' = LineWidths(MapLines(varValue))
    /\ shown' = shown \cup {"map"}
    /\ pc' = "map"
    /\ UNCHANGED <<supply_df, demand_df, costs, supply, demand, status, varValue,
                   pi, results, total_cost, flow_df, shadow_prices>>

\* "Map View of Transportation Routes", no route carrying tons: reading the
\* tons column raises KeyError and the run ends.
MapViewFails ==
    /\ pc = "flow"
    /\ ~TonsColumnExists(MapLines(varValue))
    /\ pc' = "failed"
    /\ UNCHANGED <<supply_df, demand_df, costs, supply, demand, status, varValue,
                   pi, results, total_cost, flow_df, map_df, shadow_prices, shown>>

\* "Model Status and Shadow Prices": the status is written, the dual values
\* are read from the constraints and the binding ones are kept.
StatusReport ==
    /\ pc = "map"
    /\ \E duals \in IF status = "Optimal"
                    THEN DualSolutions(varValue, supply, demand, costs)
                    ELSE UnsolvedDuals(supply, demand) :
          /\ pi' = duals
          /\ shadow_prices' = ShadowPrices(duals)
    /\ shown' = shown \cup {"status", "prices"}
    /\ pc' = "done"
    /\ UNCHANGED <<supply_df, demand_df, costs, supply, demand, status, varValue,
                   results, total_cost, flow_df, map_df>>

\* The button is pressed on the starting tables, or on these with one cell
\* edited: the run of RunOptimization, the solver ending on a basis.
RunOptimizationBasic ==
    /\ pc = "idle"
    /\ LET sup == SupplyDict(supply_df)
           dem == DemandDict(demand_df)
       IN /\ CostsKnown(sup, dem)
          /\ supply' = sup
          /\ demand' = dem
          /\ LET fb == FeasibleBases(sup, dem)
             IN IF fb # {}
                THEN /\ status' = "Optimal"
                     /\ varValue' \in BasicOptimalPlans(fb, sup, dem, costs)
                ELSE /\ status' = "Infeasible"
                     /\ varValue' \in PartialPlans(sup, dem)
    /\ pc' = "solved"
    /\ UNCHANGED <<supply_df, demand_df, costs, pi, results, total_cost, flow_df,
                   map_df, shadow_prices, shown>>

\* The report of StatusReport, the dual values read from the basis.
StatusReportBasic ==
    /\ pc = "map"
    /\ \E duals \in IF status = "Optimal"
                    THEN BasicDualSolutions(varValue, supply, demand, costs)
                    ELSE UnsolvedDuals(supply, demand) :
          /\ pi' = duals
          /\ shadow_prices' = ShadowPrices(duals)
    /\ shown' = shown \cup {"status", "prices"}
    /\ pc' = "done"
    /\ UNCHANGED <<supply_df, demand_df, costs, supply, demand, status, varValue,
                   results, total_cost, flow_df, map_df>>

Next ==
    \/ RunOptimization
    \/ RunFails
    \/ ShowPlan
    \/ FlowBreakdown
    \/ MapView
    \/ MapViewFails
    \/ StatusReport

Spec == Init /\ [][Next]_vars

\* A run on the tables the editors start from, at most one cell edited.
InitDefault ==
    /\ \E t \in EditedTables :
          /\ supply_df = t[1]
          /\ demand_df = t[2]
    /\ costs = default_costs
    /\ pc = "idle"
    /\ supply = <<>>
    /\ demand = <<>>
    /\ status = "Not Solved"
    /\ varValue = <<>>
    /\ pi = <<>>
    /\ results = <<>>
    /\ total_cost = 0
    /\ flow_df = {}
    /\ map_df = {}
    /\ shadow_prices = <<>>
    /\ shown = {}

NextDefault ==
    \/ RunOptimizationBasic
    \/ ShowPlan
    \/ FlowBreakdown
    \/ MapView
    \/ MapViewFails
    \/ StatusReportBasic

SpecDefault == InitDefault /\ [][NextDefault]_vars

(***************************************************************************)
(* Properties.                                                             *)
(***************************************************************************)
\* The solve has ended and left a status.
SolveEnded == status # "Not Solved"

\* Tons the shown matrix ships out of the origin s.
TonsOutOf(s) == SumOver(DOMAIN demand, [d \in DOMAIN demand |-> results[<<s, d>>]])

\* Tons the shown matrix ships into the destination d.
TonsInto(d) == SumOver(DOMAIN supply, [s \in DOMAIN supply |-> results[<<s, d>>]])

Total(dict) == SumOver(DOMAIN dict, dict)

\* C1: when the status is Optimal, the tons the shown matrix ships out of an
\* origin, summed over the destinations, do not exceed the capacity of the
\* origin.
C1_SupplyRespected ==
    (status = "Optimal" /\ "plan" \in shown) =>
        \A s \in DOMAIN supply : TonsOutOf(s) <= supply[s]

\* An optimal plan is shown in which an origin ships all of its capacity and
\* another origin keeps some.
C1_Witness ==
    /\ status = "Optimal"
    /\ "plan" \in shown
    /\ \E s \in DOMAIN supply : supply[s] > 0 /\ TonsOutOf(s) = supply[s]
    /\ \E s \in DOMAIN supply : TonsOutOf(s) < supply[s]

\* C2: when the status is Optimal, the tons the shown matrix ships into a
\* destination, summed over the origins, are not below the requirement of the
\* destination.
C2_DemandMet ==
    (status = "Optimal" /\ "plan" \in shown) =>
        \A d \in DOMAIN demand : TonsInto(d) >= demand[d]

\* An optimal plan is shown in which every destination has a requirement and
\* receives exactly that.
C2_Witness ==
    /\ status = "Optimal"
    /\ "plan" \in shown
    /\ \A d \in DOMAIN demand : demand[d] > 0 /\ TonsInto(d) = demand[d]

Malformed ==
    \/ \E i \in DOMAIN supply_df : supply_df[i].Supply < 0
    \/ \E j \in DOMAIN demand_df : demand_df[j].Demand < 0
    \/ \E k \in DOMAIN costs : costs[k] < 0
    \/ \E i, j \in DOMAIN supply_df : i # j /\ supply_df[i].Region = supply_df[j].Region
    \/ \E i, j \in DOMAIN demand_df : i # j /\ demand_df[i].RDC = demand_df[j].RDC
    \/ \E i \in DOMAIN supply_df, j \in DOMAIN demand_df :
            <<supply_df[i].Region, demand_df[j].RDC>> \notin DOMAIN costs

\* C4: when the status is not Optimal, no shipment matrix, no total cost and
\* no per-route records are produced or shown (stated for well-formed tables).
C4_NoPlanUnlessOptimal ==
    (~Malformed /\ status # "Optimal") =>
        /\ shown \cap {"plan", "cost", "sankey", "flow", "map"} = {}
        /\ results = <<>>
        /\ flow_df = {}

\* C5: on malformed tables the run fails before any solve is started: no
\* status is left, nothing is shown and no dictionary entry is lost.
C5_MalformedRejected ==
    Malformed =>
        /\ pc \in {"idle", "failed"}
        /\ ~SolveEnded
        /\ shown = {}

\* C6: when the input is feasible, the total cost shown equals the sum of the
\* line costs of the rows of the flow breakdown, each line cost being the tons
\* of the row times its unit cost.
C6_TotalIsSumOfLines ==
    (status = "Optimal" /\ "flow" \in shown) =>
        /\ total_cost = SumOver(flow_df, [row \in flow_df |-> row.TotalCost])
        /\ \A row \in flow_df : row.TotalCost = row.Tons * row.CostPerTon

\* The flow breakdown of an optimal plan lists two routes or more, leaves a
\* route out, and the total cost is not zero.
C6_Witness ==
    /\ status = "Optimal"
    /\ "flow" \in shown
    /\ Cardinality(flow_df) >= 2
    /\ Cardinality(flow_df) < Cardinality(DOMAIN varValue)
    /\ total_cost # 0

\* The tables are the ones the editors start from.
DefaultTables ==
    /\ supply_df = default_supply
    /\ demand_df = default_demand
    /\ costs = default_costs

\* The value of dual values: every dual value times the right-hand side of its
\* constraint.  No feasible plan costs less than the value of feasible dual
\* values.
DualValue(duals, sup, dem) ==
    SumOver(DOMAIN duals, [n \in DOMAIN duals |-> duals[n] * Named(n, sup, dem).rhs])

\* C7: on the starting tables the solve ends with the status Optimal, every
\* supply and every demand constraint holds with equality at the values of
\* the variables (every origin ships its capacity, every destination receives
\* its requirement), and the total cost shown is the least cost of a feasible
\* plan: no feasible basic plan costs less, and dual values exist that are
\* feasible and whose value is the total cost, so no feasible plan at all
\* costs less.
C7_DefaultOptimalTight ==
    (DefaultTables /\ SolveEnded) =>
        /\ status = "Optimal"
        /\ \A c \in Constraints(supply, demand) : Tight(c, varValue)
        /\ "cost" \in shown =>
              LET fb == FeasibleBases(supply, demand)
              IN /\ \A p \in fb :
                       LET x == BasicPlan(p, supply, demand)
                       IN total_cost <= SumOver(DOMAIN x, [r \in DOMAIN x |-> x[r] * costs[r]])
                 /\ \E p \in fb :
                       /\ DualFeasible(BasicDuals(p, costs), supply, demand, costs)
                       /\ DualValue(BasicDuals(p, costs), supply, demand) = total_cost

\* The run on the starting tables is through: the plan, its cost and the
\* report are shown, every origin ships and every destination receives.
C7_Witness ==
    /\ DefaultTables
    /\ pc = "done"
    /\ status = "Optimal"
    /\ {"plan", "cost", "prices"} \subseteq shown
    /\ total_cost > 0
    /\ \A s \in DOMAIN supply : TonsOutOf(s) = supply[s] /\ supply[s] > 0
    /\ \A d \in DOMAIN demand : TonsInto(d) = demand[d] /\ demand[d] > 0

\* C8: the binding-constraint map holds exactly the constraints whose dual
\* value has a magnitude above 0.0001, and holds no entry of value zero.
C8_BindingMapExact ==
    "prices" \in shown =>
        /\ DOMAIN shadow_prices =
              {n \in DOMAIN pi : \/ pi[n] * PiScale > BindingThreshold
                                 \/ (-pi[n]) * PiScale > BindingThreshold}
        /\ \A n \in DOMAIN shadow_prices : shadow_prices[n] = pi[n] /\ shadow_prices[n] # 0

\* The report is written with a supply constraint and a demand constraint in
\* the map and another constraint left out of it.
C8_Witness ==
    /\ "prices" \in shown
    /\ \E n \in DOMAIN shadow_prices : n[1] = "Supply"
    /\ \E n \in DOMAIN shadow_prices : n[1] = "Demand"
    /\ \E n \in DOMAIN pi : n \notin DOMAIN shadow_prices

\* C9: after an Optimal solve the shadow price of every supply constraint is
\* at most zero and that of every demand constraint at least zero, in the
\* dual values read and in the map reported.
C9_PriceSigns ==
    (status = "Optimal" /\ "prices" \in shown) =>
        /\ \A n \in DOMAIN pi :
              /\ n[1] = "Supply" => pi[n] <= 0
              /\ n[1] = "Demand" => pi[n] >= 0
        /\ \A n \in DOMAIN shadow_prices :
              /\ n[1] = "Supply" => shadow_prices[n] <= 0
              /\ n[1] = "Demand" => shadow_prices[n] >= 0

\* An Optimal solve is reported with a supply price below zero and a demand
\* price above zero.
C9_Witness ==
    /\ status = "Optimal"
    /\ "prices" \in shown
    /\ \E n \in DOMAIN shadow_prices : n[1] = "Supply" /\ shadow_prices[n] < 0
    /\ \E n \in DOMAIN shadow_prices : n[1] = "Demand" /\ shadow_prices[n] > 0

\* C10: once the solve has ended, every stage can be passed on to the next,
\* up to the report of the status and the shadow prices (stated for
\* well-formed tables and an Optimal solve, where the values of the variables
\* are the plan itself).
C10_RunReachesReport ==
    (~Malformed /\ status = "Optimal" /\ pc \in {"solved", "plan", "flow", "map"}) =>
        ENABLED (ShowPlan \/ FlowBreakdown \/ MapView \/ StatusReport)

====
